---- MODULE Spec2Model ----
(***************************************************************************)
(* Model of the Real-Time-Stock-Monitor dashboards.                        *)
(*                                                                         *)
(* The repository holds three Streamlit scripts that poll a price source   *)
(* and raise price alerts:                                                 *)
(*   appcode.py    yfinance dashboard, alert records with a triggered flag,*)
(*                 e-mail notification, alert history                      *)
(*   data.py       Alpha Vantage dashboard, alert records without a flag,  *)
(*                 success banners                                         *)
(*   app_alpha.py  Alpha Vantage page with one alert price and a           *)
(*                 while-True polling loop                                 *)
(* A session runs one of them (script).  A step of the model is one run of *)
(* the script from top to bottom (a Streamlit rerun, caused by one widget  *)
(* event or by the refresh timer) or, for app_alpha.py, one iteration of   *)
(* its loop.  Prices are integers, timestamps are ticks of a clock.        *)
(***************************************************************************)
EXTENDS Integers, Sequences, FiniteSets, TLC

VARIABLES
    script,         \* which of the three scripts this session runs
    alerts,         \* st.session_state.alerts
    alert_history,  \* appcode.py: st.session_state.alert_history
    running,        \* appcode.py: st.session_state.running
    auto_refresh,   \* appcode.py: st.session_state.auto_refresh
    now,            \* the wall clock read by datetime.utcnow() / datetime.now()
    created,        \* appcode.py: the ids given to the records created so far, in order
    notified,       \* per alert (same index as alerts): what was emitted for it so far
    cyc,            \* what the last run of the script saw and did
    alpha           \* app_alpha.py: the page's widgets, loop and notifications

vars == <<script, alerts, alert_history, running, auto_refresh,
          now, created, notified, cyc, alpha>>

----------------------------------------------------------------------------
(* Bounds of the model *)

\* the number inputs for the target price range over 0..MaxTarget
MaxTarget == 1

\* at most MaxCreated records are created in an appcode.py session, and the
\* data.py alert list holds at most MaxCreated records
MaxCreated == 2

\* the clock stops advancing at MaxClock
MaxClock == 1

\* data.py and app_alpha.py are followed until a record has shown MaxBanners banners
MaxBanners == 2

----------------------------------------------------------------------------
(* Value domains *)

Scripts == {"appcode", "data", "app_alpha"}

\* the symbols the selectbox (appcode.py) or the text input (data.py) can hold
Symbols == {"AAPL", "TCS"}

\* what an e-mail text input can hold
Emails == {"", "user@example.com"}

RisesTo == "Price rises to target"

FallsTo == "Price falls to target"

AlertTypes == {RisesTo, FallsTo}

\* what a number input for the target price (min_value=0.0) can hold
Targets == 0..MaxTarget

\* the prices the price source can quote: below, at and above every target
Prices == 0..(MaxTarget + 1)

\* A frame is the sequence of its Close values: <<>> is the empty DataFrame,
\* the last element is the latest price.
DataFrames == {<<>>} \cup {<<p>> : p \in Prices}

\* What a call of the price source does: it raises, or it returns a frame.
Downloads == {[raised |-> TRUE, df |-> <<>>]} \cup {[raised |-> FALSE, df |-> d] : d \in DataFrames}

Empty(df) == df = <<>>

Latest(df) == df[Len(df)]

\* the notification counters of a record nothing was emitted for
NoNotes == [toasts |-> 0, emails |-> 0, successes |-> 0, errors |-> 0, entries |-> 0]

\* the answer recorded for an alert no price was fetched for
NoDownload == [raised |-> FALSE, df |-> <<>>]

\* what a run records about an alert: whether a price was fetched for it, and
\* what the price source answered
Seen(fetched, dl) == [fetched |-> fetched, raised |-> dl.raised, df |-> dl.df]

\* the event of a run in which no button that touches the alerts was clicked
\* (the refresh timer, or any other widget)
NoButton == [button |-> "none"]

\* the cyc value of a run that evaluated no alert
NoCycle(ev) == [ev |-> ev, ran |-> FALSE, seen |-> <<>>, fired |-> {}]

\* the readings the clock can give to the next run
Times == {now} \cup (IF now < MaxClock THEN {now + 1} ELSE {})

----------------------------------------------------------------------------
(* appcode.py *)

\* fetch_intraday answering a failed download with a frame of price 0
fetch_intraday_zero_on_failure(dl) == IF ~dl.raised /\ ~Empty(dl.df) THEN dl.df ELSE <<0>>

\* lines 45-53: a download that raises, or returns nothing, yields the empty
\* frame; otherwise the frame is returned.
fetch_intraday(dl) == IF ~dl.raised /\ ~Empty(dl.df) THEN dl.df ELSE <<>>

\* lines 87-101: True when the SMTP exchange went through, False when any
\* step of it raised.
send_email(smtp_ok) == smtp_ok

\* TriggerCond with a strict comparison for rising alerts
TriggerCondRisesStrict(alert, latest_price) ==
    \/ alert.alert_type = RisesTo /\ latest_price > alert.target_price
    \/ alert.alert_type = FallsTo /\ latest_price <= alert.target_price

\* TriggerCond with the rising comparison only, as in data.py and app_alpha.py
TriggerCondRisesOnly(alert, latest_price) ==
    alert.alert_type = RisesTo /\ latest_price >= alert.target_price

\* TriggerCond without the comparison with the target
TriggerCondAnyQuote(alert, latest_price) == alert.alert_type \in AlertTypes

\* lines 296-301: the trigger flag computed for a pending alert
TriggerCond(alert, latest_price) ==
    \/ alert.alert_type = RisesTo /\ latest_price >= alert.target_price
    \/ alert.alert_type = FallsTo /\ latest_price <= alert.target_price

\* Fire stamping the alert without setting its flag
FireWithoutFlag(alert, t) == [triggered_at |-> t] @@ alert

\* lines 304-305: the alert dict after it fired at time t
Fire(alert, t) == [triggered_at |-> t] @@ [alert EXCEPT !.triggered = TRUE]

\* HistoryRecord storing the target as the actual price
HistoryRecordTargetAsActual(alert, latest_price) ==
    [id |-> alert.id, symbol |-> alert.symbol, target_price |-> alert.target_price,
     actual_price |-> alert.target_price, alert_type |-> alert.alert_type,
     recipient_email |-> alert.recipient_email, triggered_at |-> alert.triggered_at]

\* lines 306-314: the history entry of a fired alert
HistoryRecord(alert, latest_price) ==
    [id |-> alert.id, symbol |-> alert.symbol, target_price |-> alert.target_price,
     actual_price |-> latest_price, alert_type |-> alert.alert_type,
     recipient_email |-> alert.recipient_email, triggered_at |-> alert.triggered_at]

\* lines 316-323: the toast, the e-mail attempt and its banner
Notify(notes, success) ==
    [toasts    |-> notes.toasts + 1,
     emails    |-> notes.emails + 1,
     successes |-> notes.successes + (IF success THEN 1 ELSE 0),
     errors    |-> notes.errors + (IF success THEN 0 ELSE 1),
     entries   |-> notes.entries + 1]

\* Triggered undoing the trigger when the e-mail could not be sent
TriggeredUnlessMailFails(st, i, dl, latest_df, smtp_ok, t) ==
    LET fired   == Fire(st.alerts[i], t)
        success == send_email(smtp_ok)
    IN [alerts        |-> IF success THEN [st.alerts EXCEPT ![i] = fired] ELSE st.alerts,
        alert_history |-> IF success
                          THEN Append(st.alert_history, HistoryRecord(fired, Latest(latest_df)))
                          ELSE st.alert_history,
        notified      |-> [st.notified EXCEPT ![i] = Notify(@, success)],
        seen          |-> Append(st.seen, Seen(TRUE, dl)),
        fired         |-> st.fired \cup {i}]

\* Triggered storing the latest price as the target of the fired alert
TriggeredOverwritesTarget(st, i, dl, latest_df, smtp_ok, t) ==
    LET fired   == [Fire(st.alerts[i], t) EXCEPT !.target_price = Latest(latest_df)]
        success == send_email(smtp_ok)
    IN [alerts        |-> [st.alerts EXCEPT ![i] = fired],
        alert_history |-> Append(st.alert_history, HistoryRecord(fired, Latest(latest_df))),
        notified      |-> [st.notified EXCEPT ![i] = Notify(@, success)],
        seen          |-> Append(st.seen, Seen(TRUE, dl)),
        fired         |-> st.fired \cup {i}]

\* lines 303-323: the body of "if trigger:" for alert i
Triggered(st, i, dl, latest_df, smtp_ok, t) ==
    LET fired   == Fire(st.alerts[i], t)
        success == send_email(smtp_ok)
    IN [alerts        |-> [st.alerts EXCEPT ![i] = fired],
        alert_history |-> Append(st.alert_history, HistoryRecord(fired, Latest(latest_df))),
        notified      |-> [st.notified EXCEPT ![i] = Notify(@, success)],
        seen          |-> Append(st.seen, Seen(TRUE, dl)),
        fired         |-> st.fired \cup {i}]

\* lines 289-290, 293-294, 303: an alert the loop leaves as it is
Skipped(st, fetched, dl) == [st EXCEPT !.seen = Append(@, Seen(fetched, dl))]

\* lines 287-323: the loop of check_alerts_and_notify from alert i on, at time
\* t.  st holds alerts, alert_history, notified, and what the run saw and
\* fired.  The value is the set of states the loop can end in, one for each
\* way the price source and the SMTP server can answer.
RECURSIVE check_alerts_and_notify(_, _, _)
check_alerts_and_notify(i, st, t) ==
    IF i > Len(st.alerts) THEN {st}
    ELSE IF st.alerts[i].triggered
    THEN check_alerts_and_notify(i + 1, Skipped(st, FALSE, NoDownload), t)
    ELSE UNION {
           LET latest_df == fetch_intraday(dl) IN
             IF Empty(latest_df)
             THEN check_alerts_and_notify(i + 1, Skipped(st, TRUE, dl), t)
             ELSE IF ~TriggerCond(st.alerts[i], Latest(latest_df))
             THEN check_alerts_and_notify(i + 1, Skipped(st, TRUE, dl), t)
             ELSE UNION { check_alerts_and_notify(i + 1, Triggered(st, i, dl, latest_df, smtp_ok, t), t)
                          : smtp_ok \in BOOLEAN }
           : dl \in Downloads }

\* lines 325-332: the end of every run of appcode.py, at time t.  al, hist,
\* notes and run are the session state left by the widgets above it.
Monitor(ev, al, hist, notes, run, t) ==
    IF run
    THEN \E st \in check_alerts_and_notify(1,
                     [alerts |-> al, alert_history |-> hist, notified |-> notes,
                      seen |-> <<>>, fired |-> {}], t) :
           /\ alerts' = st.alerts
           /\ alert_history' = st.alert_history
           /\ notified' = st.notified
           /\ cyc' = [ev |-> ev, ran |-> TRUE, seen |-> st.seen, fired |-> st.fired]
    ELSE /\ alerts' = al
         /\ alert_history' = hist
         /\ notified' = notes
         /\ cyc' = NoCycle(ev)

\* lines 135-139: "Start Monitoring"
StartMonitoring ==
    /\ script = "appcode"
    /\ running' = TRUE
    /\ \E t \in Times :
         /\ now' = t
         /\ Monitor(NoButton, alerts, alert_history, notified, TRUE, t)
    /\ UNCHANGED <<script, auto_refresh, created, alpha>>

\* lines 136-141: "Stop Monitoring"
StopMonitoring ==
    /\ script = "appcode"
    /\ running' = FALSE
    /\ \E t \in Times :
         /\ now' = t
         /\ Monitor(NoButton, alerts, alert_history, notified, FALSE, t)
    /\ UNCHANGED <<script, auto_refresh, created, alpha>>

\* line 134: the "Auto-refresh live" checkbox is flipped
ToggleAutoRefresh ==
    /\ script = "appcode"
    /\ auto_refresh' = ~auto_refresh
    /\ \E t \in Times :
         /\ now' = t
         /\ Monitor(NoButton, alerts, alert_history, notified, running, t)
    /\ UNCHANGED <<script, running, created, alpha>>

\* lines 328-330: the timed rerun of a running, auto-refreshing session
TimerRerun ==
    /\ script = "appcode"
    /\ running /\ auto_refresh
    /\ \E t \in Times :
         /\ now' = t
         /\ Monitor(NoButton, alerts, alert_history, notified, running, t)
    /\ UNCHANGED <<script, running, auto_refresh, created, alpha>>

\* lines 198-206: the record "Set Alert" builds (created_at, which nothing
\* reads, is left out)
AlertRecord(al, symbol, alert_price, alert_type, alert_email) ==
    [id |-> Len(al) + 1, symbol |-> symbol, target_price |-> alert_price,
     alert_type |-> alert_type, recipient_email |-> alert_email,
     triggered |-> FALSE]

\* ValidSubmission checking the price only, as data.py does
ValidSubmissionPriceOnly(alert_email, alert_price) == alert_price > 0

\* line 197: the check "Set Alert" makes on the submission
ValidSubmission(alert_email, alert_price) == alert_email # "" /\ alert_price > 0

\* lines 170-210: "Set Alert" in the Live Monitor tab, for the symbol the
\* selectbox holds.  The expander is drawn only when the fetch for that
\* symbol returned data.
SetAlert ==
    /\ script = "appcode"
    /\ Len(created) < MaxCreated
    /\ \E symbol \in Symbols, dl \in Downloads, t \in Times,
          alert_email \in Emails, alert_price \in Targets, alert_type \in AlertTypes :
         LET accepted == ~Empty(fetch_intraday(dl)) /\ ValidSubmission(alert_email, alert_price)
             record   == AlertRecord(alerts, symbol, alert_price, alert_type, alert_email)
         IN /\ now' = t
            /\ created' = IF accepted THEN Append(created, record.id) ELSE created
            /\ Monitor([button |-> "set_alert", data |-> ~Empty(fetch_intraday(dl)),
                        email |-> alert_email, price |-> alert_price],
                       IF accepted THEN Append(alerts, record) ELSE alerts,
                       alert_history,
                       IF accepted THEN Append(notified, NoNotes) ELSE notified,
                       running, t)
    /\ UNCHANGED <<script, running, auto_refresh, alpha>>

\* "Remove all alerts" taking effect after the evaluation of the run, the
\* order data.py has
RemoveAllAlertsAfterEvaluation ==
    /\ script = "appcode"
    /\ alerts # <<>>
    /\ \E t \in Times :
         /\ now' = t
         /\ \E st \in IF running
                      THEN check_alerts_and_notify(1,
                             [alerts |-> alerts, alert_history |-> alert_history,
                              notified |-> notified, seen |-> <<>>, fired |-> {}], t)
                      ELSE {[alerts |-> alerts, alert_history |-> alert_history,
                             notified |-> notified, seen |-> <<>>, fired |-> {}]} :
              /\ alerts' = <<>>
              /\ alert_history' = st.alert_history
              /\ notified' = <<>>
              /\ cyc' = [ev |-> [button |-> "remove_all"], ran |-> running,
                         seen |-> <<>>, fired |-> st.fired]
    /\ UNCHANGED <<script, running, auto_refresh, created, alpha>>

\* lines 260-266: "Remove all alerts", drawn only while there are alerts
RemoveAllAlerts ==
    /\ script = "appcode"
    /\ alerts # <<>>
    /\ \E t \in Times :
         /\ now' = t
         /\ Monitor([button |-> "remove_all"], <<>>, alert_history, <<>>, running, t)
    /\ UNCHANGED <<script, running, auto_refresh, created, alpha>>

\* lines 260-269: "Clear alert history", drawn only while there are alerts
ClearAlertHistory ==
    /\ script = "appcode"
    /\ alerts # <<>>
    /\ \E t \in Times :
         /\ now' = t
         /\ Monitor([button |-> "clear_history"], alerts, <<>>, notified, running, t)
    /\ UNCHANGED <<script, running, auto_refresh, created, alpha>>

----------------------------------------------------------------------------
(* data.py *)

\* lines 37-49: the frame of the price source, or the empty frame when the
\* call raised
fetch_stock_data(dl) == IF dl.raised THEN <<>> ELSE dl.df

\* lines 65-70: the alerts check_alerts returns, as their positions in the list
check_alerts(al, symbol, current_price) ==
    {i \in 1..Len(al) : al[i].symbol = symbol /\ current_price >= al[i].price}

\* line 95: the check "Set Alert" makes on the submission
ValidPrice(user_email, alert_price) == alert_price > 0

\* lines 96-101: the record "Set Alert" appends (its 'time', which is only
\* displayed, is left out)
DataAlert(stock_symbol, alert_price, user_email) ==
    [symbol |-> stock_symbol, price |-> alert_price, email |-> user_email]

\* lines 108-109: one success banner for every triggered alert
Banner(notes, triggered) ==
    [i \in 1..Len(notes) |->
       IF i \in triggered THEN [notes[i] EXCEPT !.successes = @ + 1] ELSE notes[i]]

\* lines 80-141: one run of data.py with the given button clicked, the text
\* and number inputs holding stock_symbol, alert_price and user_email, and
\* the price source answering dl.
DataRun(button, stock_symbol, alert_price, user_email, dl) ==
    LET data      == IF stock_symbol # "" THEN fetch_stock_data(dl) ELSE <<>>
        live      == stock_symbol # "" /\ ~Empty(data)
        accepted  == live /\ button = "set_alert" /\ ValidPrice(user_email, alert_price)
        al        == IF accepted
                     THEN Append(alerts, DataAlert(stock_symbol, alert_price, user_email))
                     ELSE alerts
        notes     == IF accepted THEN Append(notified, NoNotes) ELSE notified
        triggered == IF live THEN check_alerts(al, stock_symbol, Latest(data)) ELSE {}
        cleared   == al # <<>> /\ button = "clear_all"
    IN /\ alerts' = IF cleared THEN <<>> ELSE al
       /\ notified' = IF cleared THEN <<>> ELSE Banner(notes, triggered)
       /\ cyc' = [ev    |-> IF button = "set_alert"
                            THEN [button |-> button, data |-> live,
                                  email |-> user_email, price |-> alert_price]
                            ELSE [button |-> button],
                  ran   |-> stock_symbol # "",
                  seen  |-> [i \in 1..Len(al) |-> IF al[i].symbol = stock_symbol
                                                  THEN Seen(TRUE, dl)
                                                  ELSE Seen(FALSE, NoDownload)],
                  fired |-> triggered]

\* every alert has shown fewer banners than the model follows
BannersLeft == \A i \in 1..Len(notified) : notified[i].successes < MaxBanners

\* line 26: the autorefresh timer (or a widget that is no button) reruns
\* the script
DataRerun ==
    /\ script = "data"
    /\ BannersLeft
    /\ \E stock_symbol \in Symbols \cup {""}, dl \in Downloads :
         DataRun("none", stock_symbol, 0, "", dl)
    /\ UNCHANGED <<script, alert_history, running, auto_refresh, now, created, alpha>>

\* lines 94-104: "Set Alert" in the Live Monitor tab
DataSetAlert ==
    /\ script = "data"
    /\ BannersLeft
    /\ Len(alerts) < MaxCreated
    /\ \E stock_symbol \in Symbols \cup {""}, dl \in Downloads,
          alert_price \in Targets, user_email \in Emails :
         DataRun("set_alert", stock_symbol, alert_price, user_email, dl)
    /\ UNCHANGED <<script, alert_history, running, auto_refresh, now, created, alpha>>

\* lines 134-139: "Clear All Alerts", drawn only while there are alerts
DataClearAll ==
    /\ script = "data"
    /\ BannersLeft
    /\ alerts # <<>>
    /\ \E stock_symbol \in Symbols \cup {""}, dl \in Downloads :
         DataRun("clear_all", stock_symbol, 0, "", dl)
    /\ UNCHANGED <<script, alert_history, running, auto_refresh, now, created, alpha>>

----------------------------------------------------------------------------
(* app_alpha.py *)

\* lines 15-18, 50, 74-75: the script starts (first run, or a sidebar widget
\* was changed): with an API key it enters the loop, without one it warns
\* and ends.
AlphaRun ==
    /\ script = "app_alpha"
    /\ \E api_key \in {"", "KEY"}, stock_symbol \in Symbols, alert_price \in Targets :
         alpha' = [pc            |-> IF api_key # "" THEN "polling" ELSE "no_key",
                   stock_symbol  |-> stock_symbol,
                   alert_price   |-> alert_price,
                   last          |-> "none",
                   notifications |-> IF alpha.pc = "init" THEN 0 ELSE alpha.notifications]
    /\ UNCHANGED <<script, alerts, alert_history, running, auto_refresh, now, created,
                   notified, cyc>>

\* line 60: the condition of the desktop notification
AlphaAlert(alert_price, current_price) == alert_price > 0 /\ current_price >= alert_price

\* lines 51-73: one iteration of the while-True loop.  fetch_data (lines
\* 23-34) lets the exception of the price source through, and the loop's
\* except clause breaks out of the loop.
AlphaPoll ==
    /\ script = "app_alpha"
    /\ alpha.pc = "polling"
    /\ alpha.notifications < MaxBanners
    /\ \E dl \in Downloads :
         alpha' = IF dl.raised
                  THEN [alpha EXCEPT !.pc = "stopped", !.last = "raised"]
                  ELSE IF Empty(dl.df)
                  THEN [alpha EXCEPT !.last = "empty"]
                  ELSE [alpha EXCEPT !.last = "data",
                                     !.notifications =
                                        IF AlphaAlert(alpha.alert_price, Latest(dl.df))
                                        THEN @ + 1 ELSE @]
    /\ UNCHANGED <<script, alerts, alert_history, running, auto_refresh, now, created,
                   notified, cyc>>

----------------------------------------------------------------------------

Init ==
    /\ script \in Scripts
    /\ alerts = <<>>
    /\ alert_history = <<>>
    /\ running = FALSE
    /\ auto_refresh = FALSE
    /\ now = 0
    /\ created = <<>>
    /\ notified = <<>>
    /\ cyc = NoCycle(NoButton)
    /\ alpha = [pc |-> "init"]

Next ==
    \/ StartMonitoring
    \/ StopMonitoring
    \/ ToggleAutoRefresh
    \/ TimerRerun
    \/ SetAlert
    \/ RemoveAllAlerts
    \/ ClearAlertHistory
    \/ DataRerun
    \/ DataSetAlert
    \/ DataClearAll
    \/ AlphaRun
    \/ AlphaPoll

Spec == Init /\ [][Next]_vars

----------------------------------------------------------------------------
(* Properties.  The run that leads from a state to the next is described by *)
(* the primed cyc: cyc'.seen[i] is what the price source answered for the   *)
(* alert at position i of the list the run evaluated, which is alerts'.     *)

\* alert i of the list the step evaluates was pending when the step began
\* (a record the step itself created is pending)
PendingBefore(i) == i > Len(alerts) \/ ~alerts[i].triggered

\* the price source answered with a price
Quoted(o) == o.fetched /\ ~o.raised /\ ~Empty(o.df)

\* the price source was asked and gave no data
Failed(o) == o.fetched /\ (o.raised \/ Empty(o.df))

\* the records present before and after the step
Kept == 1..(IF Len(alerts) < Len(alerts') THEN Len(alerts) ELSE Len(alerts'))

\* C1: a pending "Price rises to target" record for which an evaluation cycle
\* of check_alerts_and_notify gets a price >= target_price is triggered by
\* that cycle, and a triggered record stays triggered in every later run for
\* as long as it is in the alert collection.
C1_RisesToFiresAndStays ==
    [][script = "appcode" =>
         /\ cyc'.ran =>
               \A i \in 1..Len(alerts') :
                  ( /\ PendingBefore(i)
                    /\ alerts'[i].alert_type = RisesTo
                    /\ Quoted(cyc'.seen[i])
                    /\ Latest(cyc'.seen[i].df) >= alerts'[i].target_price )
                  => alerts'[i].triggered
         /\ \A i \in Kept :
               alerts[i].alert_type = RisesTo /\ alerts[i].triggered => alerts'[i].triggered
    ]_vars

\* C1 witness: a cycle has just fired a rising record on a price equal to its
\* target, while another rising record, fired by an earlier cycle, is still
\* triggered.
C1_Witness ==
    /\ script = "appcode" /\ cyc.ran
    /\ \E i \in cyc.fired, j \in 1..Len(alerts) :
         /\ alerts[i].alert_type = RisesTo
         /\ cyc.seen[i].df = <<alerts[i].target_price>>
         /\ alerts[i].triggered
         /\ j # i
         /\ alerts[j].alert_type = RisesTo
         /\ ~cyc.seen[j].fetched
         /\ alerts[j].triggered

\* C2: a pending "Price falls to target" record for which an evaluation cycle
\* gets a price <= target_price is triggered by that cycle, and a triggered
\* record stays triggered in every later run for as long as it is in the
\* alert collection.
C2_FallsToFiresAndStays ==
    [][script = "appcode" =>
         /\ cyc'.ran =>
               \A i \in 1..Len(alerts') :
                  ( /\ PendingBefore(i)
                    /\ alerts'[i].alert_type = FallsTo
                    /\ Quoted(cyc'.seen[i])
                    /\ Latest(cyc'.seen[i].df) <= alerts'[i].target_price )
                  => alerts'[i].triggered
         /\ \A i \in Kept :
               alerts[i].alert_type = FallsTo /\ alerts[i].triggered => alerts'[i].triggered
    ]_vars

\* C2 witness: a cycle has just fired a falling record on a price below its
\* target, while another falling record, fired by an earlier cycle, is still
\* triggered.
C2_Witness ==
    /\ script = "appcode" /\ cyc.ran
    /\ \E i \in cyc.fired, j \in 1..Len(alerts) :
         /\ alerts[i].alert_type = FallsTo
         /\ Latest(cyc.seen[i].df) < alerts[i].target_price
         /\ alerts[i].triggered
         /\ j # i
         /\ alerts[j].alert_type = FallsTo
         /\ ~cyc.seen[j].fetched
         /\ alerts[j].triggered


\* C3 (as claimed): no alert record ever produces more than one notification
\* of a kind: at most one toast, one e-mail attempt, one banner and one
\* history entry, however many runs see its condition hold.
C3_AtMostOneNotification ==
    \A i \in 1..Len(notified) :
       /\ notified[i].toasts <= 1
       /\ notified[i].emails <= 1
       /\ notified[i].successes + notified[i].errors <= 1
       /\ notified[i].entries <= 1

\* the history entries the step appends
NewEntries ==
    IF cyc'.ev.button = "clear_history"
    THEN alert_history'
    ELSE SubSeq(alert_history', Len(alert_history) + 1, Len(alert_history'))

\* C4: when the price source gives no data for symbol S in an evaluation
\* cycle, every record for S is after the cycle what it was before it: not
\* triggered by the cycle, without a new triggered_at, with no history entry
\* appended and nothing notified for it.
C4_FailedFetchLeavesRecords ==
    [][script = "appcode" /\ cyc'.ran =>
         \A S \in Symbols :
            LET recs  == {i \in 1..Len(alerts') : alerts'[i].symbol = S}
                asked == {i \in recs : cyc'.seen[i].fetched}
            IN (asked # {} /\ \A i \in asked : Failed(cyc'.seen[i])) =>
                 /\ \A i \in recs :
                       /\ i \notin cyc'.fired
                       /\ i <= Len(alerts) =>
                            alerts'[i] = alerts[i] /\ notified'[i] = notified[i]
                       /\ i > Len(alerts) =>
                            /\ ~alerts'[i].triggered
                            /\ "triggered_at" \notin DOMAIN alerts'[i]
                            /\ notified'[i] = NoNotes
                 /\ \A k \in 1..Len(NewEntries) : NewEntries[k].symbol # S
    ]_vars

\* C4 witness: a cycle got no data for a pending falling record, which is
\* still pending, and fired a record of the other symbol.
C4_Witness ==
    /\ script = "appcode" /\ cyc.ran
    /\ \E i \in 1..Len(alerts), j \in cyc.fired :
         /\ Failed(cyc.seen[i])
         /\ alerts[i].alert_type = FallsTo
         /\ ~alerts[i].triggered
         /\ notified[i] = NoNotes
         /\ alerts[j].symbol # alerts[i].symbol


\* C5 (as claimed): the bulk clear leaves the alert collection empty, and no
\* run triggers or notifies anything from the clear until a record is added,
\* the run in which the clear was clicked included.
C5_ClearThenNoTriggers ==
    [][/\ cyc'.ev.button \in {"remove_all", "clear_all"} =>
            alerts' = <<>> /\ cyc'.fired = {}
       /\ alerts = <<>> /\ alerts' = <<>> =>
            cyc'.fired = {} /\ alert_history' = alert_history /\ notified' = <<>>
    ]_vars

\* C5 (amended): the bulk clear leaves the alert collection empty, and no run
\* that starts after it, before a record is added, triggers or notifies
\* anything.  In appcode.py that includes the evaluation of the run in which
\* "Remove all alerts" was clicked; in data.py the check of that run comes
\* before "Clear All Alerts" takes effect and is not covered.
C5_ClearThenNoLaterTriggers ==
    [][/\ cyc'.ev.button \in {"remove_all", "clear_all"} => alerts' = <<>>
       /\ script = "appcode" /\ cyc'.ev.button = "remove_all" =>
            cyc'.fired = {} /\ alert_history' = alert_history
       /\ alerts = <<>> /\ alerts' = <<>> =>
            cyc'.fired = {} /\ alert_history' = alert_history /\ notified' = <<>>
    ]_vars

\* C5 witness: "Remove all alerts" was clicked in a monitoring session whose
\* history shows that a record had fired; the evaluation of that run found the
\* collection empty.
C5_Witness ==
    /\ script = "appcode"
    /\ cyc.ev.button = "remove_all"
    /\ cyc.ran
    /\ alerts = <<>>
    /\ alert_history # <<>>

\* the step is a Set Alert submission that the specification calls invalid
InvalidSubmission == cyc'.ev.price <= 0 \/ cyc'.ev.email = ""

\* the step leaves the alert collection as it was, but for what its own
\* evaluation cycle fired
NoRecordProduced == Len(alerts') = Len(alerts) /\ (cyc'.fired = {} => alerts' = alerts)

\* C6 (as claimed): a Set Alert submission with a non-positive price or an
\* empty recipient produces no record and leaves the collection unchanged.
C6_InvalidSubmissionRejected ==
    [][cyc'.ev.button = "set_alert" /\ InvalidSubmission => NoRecordProduced]_vars

\* C6 (amended): a submission with a non-positive price produces no record
\* in either dashboard; appcode.py also rejects an empty recipient, while
\* data.py, whose e-mail field is optional, checks the price only.  A record
\* is appended exactly when the submission passes these checks and the price
\* fetch of the run returned data.
C6_InvalidSubmissionRejectedPerScript ==
    [][cyc'.ev.button = "set_alert" =>
         LET valid == /\ cyc'.ev.price > 0
                      /\ script = "appcode" => cyc'.ev.email # ""
         IN /\ ~valid => NoRecordProduced
            /\ valid /\ cyc'.ev.data =>
                 /\ Len(alerts') = Len(alerts) + 1
                 /\ alerts'[Len(alerts')].symbol \in Symbols
                 /\ script = "appcode" =>
                      /\ alerts'[Len(alerts')].target_price = cyc'.ev.price
                      /\ alerts'[Len(alerts')].recipient_email = cyc'.ev.email
                 /\ script = "data" =>
                      /\ alerts'[Len(alerts')].price = cyc'.ev.price
                      /\ alerts'[Len(alerts')].email = cyc'.ev.email
            /\ ~cyc'.ev.data => NoRecordProduced
    ]_vars

\* C6 witness: appcode.py has just turned down a submission with a positive
\* price and an empty recipient, made while the price fetch had data.
C6_Witness ==
    /\ script = "appcode"
    /\ cyc.ev.button = "set_alert"
    /\ cyc.ev.data
    /\ cyc.ev.price > 0
    /\ cyc.ev.email = ""
    /\ alerts = <<>>
    /\ created = <<>>

\* C7 (as claimed): the ids given to the records created in a session are
\* strictly increasing, hence never repeated.
C7_IdsUniqueAndIncreasing ==
    \A j, k \in 1..Len(created) : j < k => created[j] < created[k]

\* the error banners and e-mail attempts alert i had before the step
ErrorsBefore(i) == IF i <= Len(alerts) THEN notified[i].errors ELSE 0

EmailsBefore(i) == IF i <= Len(alerts) THEN notified[i].emails ELSE 0

\* C8: when a record fires and its e-mail cannot be sent, the record still
\* ends the cycle triggered, with its history entry, the e-mail is attempted
\* once and never again, and the records after it are still evaluated.
C8_MailFailureIsNotFatal ==
    [][script = "appcode" =>
         /\ cyc'.ran =>
              \A i \in 1..Len(alerts') :
                 notified'[i].errors > ErrorsBefore(i) =>
                   /\ alerts'[i].triggered
                   /\ "triggered_at" \in DOMAIN alerts'[i]
                   /\ \E k \in 1..Len(NewEntries) :
                        /\ NewEntries[k].id = alerts'[i].id
                        /\ NewEntries[k].symbol = alerts'[i].symbol
                        /\ NewEntries[k].triggered_at = alerts'[i].triggered_at
                   /\ notified'[i].emails = EmailsBefore(i) + 1
                   /\ \A j \in (i + 1)..Len(alerts') :
                        PendingBefore(j) =>
                          /\ cyc'.seen[j].fetched
                          /\ ( /\ Quoted(cyc'.seen[j])
                               /\ \/ /\ alerts'[j].alert_type = RisesTo
                                     /\ Latest(cyc'.seen[j].df) >= alerts'[j].target_price
                                  \/ /\ alerts'[j].alert_type = FallsTo
                                     /\ Latest(cyc'.seen[j].df) <= alerts'[j].target_price )
                             => alerts'[j].triggered
         /\ \A i \in 1..Len(alerts') :
              notified'[i].errors >= 1 =>
                /\ alerts'[i].triggered
                /\ notified'[i].errors = 1
                /\ notified'[i].emails = 1
    ]_vars

\* C8 witness: in one cycle the e-mail of a fired record failed and a later
\* record of the list was fired as well; the first is triggered and in the
\* history.
C8_Witness ==
    /\ script = "appcode" /\ cyc.ran
    /\ \E i, j \in cyc.fired :
         /\ i < j
         /\ notified[i].errors = 1
         /\ alerts[i].triggered
         /\ \E k \in 1..Len(alert_history) : alert_history[k].id = alerts[i].id
         /\ alerts[j].triggered

\* C9 (as claimed): a failed fetch is swallowed: the poller goes on polling,
\* and the cycle goes on to the records after the one whose fetch failed.
C9_FailedFetchIsNotFatal ==
    /\ script = "app_alpha" /\ alpha.pc # "init" /\ alpha.last \in {"raised", "empty"} =>
         alpha.pc = "polling"
    /\ script = "appcode" /\ cyc.ran =>
         /\ running
         /\ \A i \in 1..Len(alerts) :
              Failed(cyc.seen[i]) =>
                \A j \in (i + 1)..Len(alerts) : ~alerts[j].triggered => cyc.seen[j].fetched

\* C10: a record has a triggered_at exactly when it is triggered, the value
\* is the time of the run that triggered it, and no later run changes it.
C10_TriggeredAtSetOnce ==
    [][script = "appcode" =>
         /\ \A i \in 1..Len(alerts') :
              ("triggered_at" \in DOMAIN alerts'[i]) <=> alerts'[i].triggered
         /\ \A i \in 1..Len(alerts') :
              PendingBefore(i) /\ alerts'[i].triggered => alerts'[i].triggered_at = now'
         /\ \A i \in Kept :
              alerts[i].triggered => alerts'[i].triggered_at = alerts[i].triggered_at
    ]_vars

\* C10 witness: after a later cycle, a record triggered at an earlier time
\* still carries that time, next to a pending record without a triggered_at.
C10_Witness ==
    /\ script = "appcode" /\ cyc.ran
    /\ \E i, j \in 1..Len(alerts) :
         /\ alerts[i].triggered
         /\ alerts[i].triggered_at < now
         /\ ~cyc.seen[i].fetched
         /\ ~alerts[j].triggered
         /\ "triggered_at" \notin DOMAIN alerts[j]
         /\ cyc.seen[j].fetched


\* the price meets the direction and target of the record
Satisfies(alert, price) ==
    \/ alert.alert_type = RisesTo /\ price >= alert.target_price
    \/ alert.alert_type = FallsTo /\ price <= alert.target_price

\* C11: a pending record is triggered by a run exactly when the run evaluates
\* it and gets a price that meets its direction and target: it stays pending
\* through every other observation and fires on the first one that does.  It
\* fires once: the firing run emits one toast, one e-mail attempt and one
\* history entry for it, and no later run touches it.
C11_FiresOnFirstSatisfyingPrice ==
    [][script = "appcode" =>
         /\ \A i \in 1..Len(alerts') :
              PendingBefore(i) =>
                /\ alerts'[i].triggered <=>
                     ( /\ cyc'.ran
                       /\ Quoted(cyc'.seen[i])
                       /\ Satisfies(alerts'[i], Latest(cyc'.seen[i].df)) )
                /\ alerts'[i].triggered =>
                     /\ notified'[i].toasts = 1
                     /\ notified'[i].emails = 1
                     /\ notified'[i].entries = 1
                /\ ~alerts'[i].triggered => notified'[i] = NoNotes
         /\ \A i \in Kept :
              alerts[i].triggered => alerts'[i] = alerts[i] /\ notified'[i] = notified[i]
    ]_vars

\* C11 witness: a cycle got a price below the target of a pending rising
\* record, which stays pending with nothing emitted for it, and in the same
\* cycle fired another rising record whose target the price had reached.
C11_Witness ==
    /\ script = "appcode" /\ cyc.ran
    /\ \E i \in 1..Len(alerts), j \in cyc.fired :
         /\ alerts[i].alert_type = RisesTo
         /\ Quoted(cyc.seen[i])
         /\ Latest(cyc.seen[i].df) < alerts[i].target_price
         /\ ~alerts[i].triggered
         /\ notified[i] = NoNotes
         /\ alerts[j].alert_type = RisesTo
         /\ Latest(cyc.seen[j].df) >= alerts[j].target_price
         /\ alerts[j].triggered
         /\ notified[j].entries = 1


\* the fields of a record other than triggered and triggered_at
Fields(alert) == DOMAIN alert \ {"triggered", "triggered_at"}

\* b is a with its trigger set: every other field as it was
SameButTrigger(a, b) ==
    /\ Fields(b) = Fields(a)
    /\ \A f \in Fields(a) : b[f] = a[f]

\* C12: the evaluation of a run neither adds, removes nor reorders records,
\* and changes no id, symbol, target_price, direction or recipient.  It sets
\* triggered and triggered_at on the records it fires; a record that was
\* already triggered, or whose condition does not hold, is left as it was.
\* Only "Set Alert" (one record appended) and the bulk clear change the list.
C12_EvaluationFrame ==
    [][script # "app_alpha" =>
         /\ cyc'.ev.button \notin {"set_alert", "remove_all", "clear_all"} =>
              Len(alerts') = Len(alerts)
         /\ cyc'.ev.button = "set_alert" =>
              Len(alerts') \in {Len(alerts), Len(alerts) + 1}
         /\ \A i \in Kept :
              /\ SameButTrigger(alerts[i], alerts'[i])
              /\ script = "data" => alerts'[i] = alerts[i]
              /\ script = "appcode" =>
                   /\ alerts[i].triggered => alerts'[i] = alerts[i]
                   /\ ~alerts'[i].triggered => alerts'[i] = alerts[i]
                   /\ ~alerts[i].triggered /\ alerts'[i].triggered =>
                        /\ cyc'.ran
                        /\ (DOMAIN alerts'[i]) = (DOMAIN alerts[i]) \cup {"triggered_at"}
                   /\ ( /\ cyc'.ran
                        /\ ~alerts[i].triggered
                        /\ Quoted(cyc'.seen[i])
                        /\ ~Satisfies(alerts[i], Latest(cyc'.seen[i].df)) )
                      => alerts'[i] = alerts[i]
    ]_vars

\* C12 witness: a cycle over two records fired the first on a price above
\* its target and left the second, whose condition did not hold, pending;
\* both still carry their ids, and the fired one its target.
C12_Witness ==
    /\ script = "appcode" /\ cyc.ran
    /\ Len(alerts) = 2
    /\ cyc.fired = {1}
    /\ alerts[1].id = 1 /\ alerts[2].id = 2
    /\ alerts[1].alert_type = RisesTo
    /\ Latest(cyc.seen[1].df) > alerts[1].target_price
    /\ alerts[1].triggered
    /\ Quoted(cyc.seen[2])
    /\ ~Satisfies(alerts[2], Latest(cyc.seen[2].df))
    /\ ~alerts[2].triggered


\* the positions of the records the step triggers
NewFired == {i \in 1..Len(alerts') : PendingBefore(i) /\ alerts'[i].triggered}

\* the k-th of them in the order of the alert list
NthFired(k) == CHOOSE i \in NewFired : Cardinality({j \in NewFired : j < i}) = k - 1

\* C13: the alert history mirrors the trigger transitions.  A run appends to
\* alert_history one entry for each record it triggers, in the order of the
\* alert list, and nothing else.  The evaluation runs exactly when monitoring
\* is running; while it is stopped no record is triggered and no entry is
\* appended.  "Remove all alerts" leaves alert_history as it was, and "Clear
\* alert history" leaves the alert collection as it was, so that after it the
\* list differs only in what the evaluation of the same run fired.
C13_HistoryMirrorsTriggers ==
    [][script = "appcode" =>
         /\ cyc'.ran <=> running'
         /\ cyc'.ev.button # "clear_history" =>
              /\ Len(alert_history') >= Len(alert_history)
              /\ SubSeq(alert_history', 1, Len(alert_history)) = alert_history
         /\ Len(NewEntries) = Cardinality(NewFired)
         /\ \A k \in 1..Len(NewEntries) :
              LET i == NthFired(k) IN
                NewEntries[k] =
                  [id              |-> alerts'[i].id,
                   symbol          |-> alerts'[i].symbol,
                   target_price    |-> alerts'[i].target_price,
                   actual_price    |-> Latest(cyc'.seen[i].df),
                   alert_type      |-> alerts'[i].alert_type,
                   recipient_email |-> alerts'[i].recipient_email,
                   triggered_at    |-> alerts'[i].triggered_at]
         /\ ~running' =>
              /\ NewFired = {}
              /\ NewEntries = <<>>
              /\ \A i \in Kept : alerts'[i] = alerts[i]
         /\ cyc'.ev.button = "remove_all" => alert_history' = alert_history
         /\ cyc'.ev.button = "clear_history" =>
              /\ Len(alerts') = Len(alerts)
              /\ \A i \in Kept : i \notin NewFired => alerts'[i] = alerts[i]
              /\ ~running' => alerts' = alerts /\ alert_history' = <<>>
    ]_vars

\* C13 witness: one cycle fired both records of the list, on prices that
\* differ from their targets, and the history ends with their two entries in
\* list order.
C13_Witness ==
    /\ script = "appcode" /\ cyc.ran
    /\ cyc.fired = {1, 2}
    /\ Len(alert_history) >= 2
    /\ LET n == Len(alert_history) IN
         /\ alert_history[n - 1].id = alerts[1].id
         /\ alert_history[n - 1].actual_price # alerts[1].target_price
         /\ alert_history[n].id = alerts[2].id
         /\ alert_history[n].actual_price # alerts[2].target_price
         /\ alert_history[n].triggered_at = alerts[2].triggered_at

====
